---- MODULE Spec2Model ----
(***************************************************************************)
(* The student financial ledger of the university management system: the   *)
(* StudentAccount / Payment collections of schema.prisma and the handlers  *)
(* of the PaymentForm component that read and change them.                 *)
(*                                                                         *)
(* Money is an integer number of currency units.  Every fee of the model   *)
(* is a multiple of 100 and every percentage a whole number, so the        *)
(* form's floating point (p / 100) * fee is exact and equals               *)
(* (p * fee) \div 100.                                                     *)
(*                                                                         *)
(* The stores behind the form (useStudentStore, usePaymentStore) and the   *)
(* backend routes are not part of the sources; the operations they stand   *)
(* for are modelled from the ledger specification (sections 4.2 - 4.5)     *)
(* and are marked so in the model map.                                     *)
(***************************************************************************)
EXTENDS Integers, Sequences, FiniteSets

VARIABLES
    account,               \* server: the student's StudentAccount document
    student,               \* server: the Student document (isActive)
    payments,              \* server: the Payment documents of the student
    inflight,              \* payment requests handed to onSubmit, not yet stored
    submitted,             \* number of payment requests built so far
    selectedStudent,       \* form prop: snapshot of student, account, payments
    studentTransactions,   \* form state: the rows of the transaction table
    selectedPayment,       \* form state: {} (null) or {the payment to delete}
    isDeleteDialogOpen,    \* form state
    studentStatus,         \* form state: value of the status dropdown
    paidType,              \* form state: value of the paid-type dropdown
    discountPercentage,    \* form state: value of the discount dropdown
    scholarshipPercentage, \* form state: value of the scholarship dropdown
    lastResult,            \* the errors the last operation failed with ({}: none)
    duePassed              \* calendar: the period's payment due date has passed

vars == <<account, student, payments, inflight, submitted, selectedStudent,
          studentTransactions, selectedPayment, isDeleteDialogOpen,
          studentStatus, paidType, discountPercentage, scholarshipPercentage,
          lastResult, duePassed>>

serverVars == <<account, student, payments>>

formVars == <<studentTransactions, selectedPayment, isDeleteDialogOpen,
              studentStatus, paidType, discountPercentage,
              scholarshipPercentage>>

(***************************************************************************)
(* Bounds of the model.                                                    *)
(***************************************************************************)
\* Payment requests one run of the model builds.
MaxSubmits == 2

(***************************************************************************)
(* Enumerations and option lists of the program.                           *)
(***************************************************************************)
PaymentType ==
    {"tuition", "id_card", "certificate", "graduation", "housing",
     "administrative", "deposits", "other"}

PaymentMethods == {"cash", "bank_transfer", "mobile_money", "check"}

PaymentStatus == {"pending", "paid", "overdue", "partial"}

PAID_TYPES == {"Per Month", "Per Semester", "Per Year", "One Time"}

DISCOUNT_PERCENTAGES == {0, 5, 10, 15, 20, 25, 30, 40, 50, 75, 100}

SCHOLARSHIP_PERCENTAGES == {0, 10, 25, 50, 75, 100}

(***************************************************************************)
(* Inputs the model draws from.                                            *)
(***************************************************************************)
\* Catalog prices an account is created with or re-priced to.
Fees == {100, 200}

\* Other charges an account is created with.
OtherChargesChoices == {0, 30}

\* The period the student is enrolled in (Student.academicYear, semester).
CurrentYear == "2024-2025"

CurrentSemester == 1

\* Dropdown options the user picks (subsets of the option lists).
DiscountChoices == {p \in DISCOUNT_PERCENTAGES : p \in {0, 50, 100}}

ScholarshipChoices == {p \in SCHOLARSHIP_PERCENTAGES : p \in {0, 10, 100}}

\* Signed amounts carried over from a prior period.
ForwardedChoices == {-50, 50}

\* Paid types the user picks.
PaidTypeChoices == {t \in PAID_TYPES : t \in {"Per Month", "Per Year"}}

\* Periods an account is asked for.
AcademicYears == {CurrentYear, "2025-2026"}

Semesters == {CurrentSemester, 2}

\* Department.price as the catalog holds it: a price, or the default 0 of
\* a department that was never priced.
CatalogPrices == {0} \cup {f \in Fees : \A g \in Fees : g <= f}

\* Values typed into the amount field.
AmountInputs == {-100, 0, 100, 250}

\* Amounts paid in the status specification.
StatusAmounts == {a \in AmountInputs : a = 100}

\* Values of the payment-type select: nothing chosen (""), or an option.
TypeInputs == {""} \cup {t \in PaymentType : t \in {"tuition"}}

\* Values of the payment-method select: nothing chosen (""), or an option.
MethodInputs == {""} \cup {m \in PaymentMethods : m \in {"cash"}}

(***************************************************************************)
(* Arithmetic.                                                             *)
(***************************************************************************)
\* (p / 100) * fee
PercentOf(p, fee) == (p * fee) \div 100

\* Math.round(n / d) for n >= 0, d > 0: round half up.
RoundDiv(n, d) == (2 * n + d) \div (2 * d)

\* x || y on numbers: y when x is 0 (or missing), x otherwise.
OrElse(x, y) == IF x = 0 THEN y ELSE x

RECURSIVE SumAmounts(_)
SumAmounts(ps) ==
    IF ps = {} THEN 0
    ELSE LET p == CHOOSE q \in ps : TRUE
         IN  p.amount + SumAmounts(ps \ {p})

(***************************************************************************)
(* What the form presents for an account (the tuition fee card).           *)
(***************************************************************************)
\* Mutant: the scholarship field read as an amount frozen when it was applied.
ScholarshipDisplay_Frozen(acct) == acct.scholarship

\* SCHOLARSHIP: (scholarship || 0) / 100 * (tuitionFee || 0)
ScholarshipDisplay(acct) == PercentOf(acct.scholarship, acct.tuitionFee)

\* BALANCE: tuitionFee + forwarded - discount - paidAmount
BalanceDisplay(acct) ==
    acct.tuitionFee + acct.forwarded - acct.discount - acct.paidAmount

(***************************************************************************)
(* The ledger behind the stores: LedgerAccount, AdjustmentEngine and       *)
(* PaymentJournal of the specification.                                    *)
(***************************************************************************)
\* studentAccount[0] of a student who has no account, as the form and the
\* stores read it: every field missing (0, "").
NoAccount ==
    [tuitionFee   |-> 0,
     otherCharges |-> 0,
     discount     |-> 0,
     scholarship  |-> 0,
     forwarded    |-> 0,
     totalDue     |-> 0,
     paidAmount   |-> 0,
     paidType     |-> "",
     status       |-> "",
     academicYear |-> "",
     semester     |-> 0]

\* Mutant: the total the balance card of the form adds up (no other charges,
\* no scholarship).
TotalDue_AsBalanceCard(acct) ==
    acct.tuitionFee + acct.forwarded - acct.discount

\* totalDue = tuition fee + other charges + forwarded - discount - scholarship
TotalDue(acct) ==
    acct.tuitionFee + acct.otherCharges + acct.forwarded - acct.discount
        - PercentOf(acct.scholarship, acct.tuitionFee)

\* aggregate: the sum of the journal's entries that still count.
Aggregate(journal) == SumAmounts(journal)

\* AccountStatusPolicy: the condition of each status, on the total due, the
\* paid amount, the number of payments that count and whether the due date
\* has passed.
IsPaid(due, paid, n, late) == due - paid <= 0 /\ n > 0

IsPartial(due, paid, n, late) == 0 < paid /\ paid < due

IsOverdue(due, paid, n, late) == due - paid > 0 /\ late

IsPending(due, paid, n, late) == due - paid > 0 /\ (n = 0 \/ ~late)

\* The statuses whose condition holds.
StatusPolicy(due, paid, n, late) ==
    {s \in PaymentStatus :
        \/ s = "paid" /\ IsPaid(due, paid, n, late)
        \/ s = "partial" /\ IsPartial(due, paid, n, late)
        \/ s = "overdue" /\ IsOverdue(due, paid, n, late)
        \/ s = "pending" /\ IsPending(due, paid, n, late)}

\* Mutant: a policy for which paid is final.
DeriveStatus_PaidIsFinal(prev, due, paid, n, late) ==
    IF prev = "paid" \/ IsPaid(due, paid, n, late) THEN "paid"
    ELSE IF IsPartial(due, paid, n, late) THEN "partial"
    ELSE IF IsOverdue(due, paid, n, late) THEN "overdue"
    ELSE IF IsPending(due, paid, n, late) THEN "pending"
    ELSE prev

\* Mutant: a policy that does not read the calendar.
DeriveStatus_NoCalendar(prev, due, paid, n, late) ==
    IF IsPaid(due, paid, n, late) THEN "paid"
    ELSE IF IsPartial(due, paid, n, late) THEN "partial"
    ELSE IF due - paid > 0 THEN "pending"
    ELSE prev

\* The status a recompute derives: the first of paid, partial, overdue,
\* pending whose condition holds (overdue before pending, as the policy
\* rules; a part payment is partial whatever the calendar says); the status
\* stays as it is when no condition holds.
DeriveStatus(prev, due, paid, n, late) ==
    IF IsPaid(due, paid, n, late) THEN "paid"
    ELSE IF IsPartial(due, paid, n, late) THEN "partial"
    ELSE IF IsOverdue(due, paid, n, late) THEN "overdue"
    ELSE IF IsPending(due, paid, n, late) THEN "pending"
    ELSE prev

\* recompute: the derived fields from the composition and the journal.
Recompute(acct, journal) ==
    LET a == [acct EXCEPT !.totalDue = TotalDue(acct),
                          !.paidAmount = Aggregate(journal)]
    IN  [a EXCEPT !.status = DeriveStatus(acct.status, a.totalDue,
                                          a.paidAmount, Cardinality(journal),
                                          duePassed)]

\* create: a fresh account for the student's period, priced from the
\* catalog; the fields create does not set take the defaults of the
\* StudentAccount model (status "normal", scholarship 0).
CreateAccount(baseFee, other, ptype) ==
    LET doc == [tuitionFee   |-> baseFee,
                otherCharges |-> other,
                discount     |-> 0,
                scholarship  |-> 0,
                forwarded    |-> 0,
                totalDue     |-> 0,
                paidAmount   |-> 0,
                paidType     |-> ptype,
                status       |-> "normal",
                academicYear |-> CurrentYear,
                semester     |-> CurrentSemester]
    IN  [doc EXCEPT !.totalDue = TotalDue(doc)]

\* Mutant: an update that accepts any paid type.
UpdateErrors_AnyPaidType(acct, pt, disc, sch) ==
    (IF acct = NoAccount THEN {"NotFound"} ELSE {})
    \cup (IF \E d \in disc : d > acct.tuitionFee \/ d < 0
          THEN {"DiscountExceedsFee"} ELSE {})
    \cup (IF \E p \in sch : p < 0 \/ p > 100
          THEN {"InvalidPercentage"} ELSE {})

\* Mutant: an update that accepts any discount amount.
UpdateErrors_NoFeeCheck(acct, pt, disc, sch) ==
    (IF acct = NoAccount THEN {"NotFound"} ELSE {})
    \cup (IF pt \notin PAID_TYPES THEN {"InvalidPaidType"} ELSE {})
    \cup (IF \E p \in sch : p < 0 \/ p > 100
          THEN {"InvalidPercentage"} ELSE {})

\* The validation of setPaidType, applyDiscount and applyScholarship.  An
\* argument the caller leaves undefined is the empty set, a given one {v}.
UpdateErrors(acct, pt, disc, sch) ==
    (IF acct = NoAccount THEN {"NotFound"} ELSE {})
    \cup (IF pt \notin PAID_TYPES THEN {"InvalidPaidType"} ELSE {})
    \cup (IF \E d \in disc : d > acct.tuitionFee \/ d < 0
          THEN {"DiscountExceedsFee"} ELSE {})
    \cup (IF \E p \in sch : p < 0 \/ p > 100
          THEN {"InvalidPercentage"} ELSE {})

\* Mutant: an update that stores the adjustment and leaves the totals.
UpdateStudentAccount_NoRecompute(acct, journal, pt, disc, sch) ==
    IF UpdateErrors(acct, pt, disc, sch) # {} THEN acct
    ELSE LET a1 == [acct EXCEPT !.paidType = pt]
             a2 == IF disc = {} THEN a1
                   ELSE [a1 EXCEPT !.discount = CHOOSE d \in disc : TRUE]
         IN  IF sch = {} THEN a2
             ELSE [a2 EXCEPT !.scholarship = CHOOSE p \in sch : TRUE]

\* updateStudentAccount(id, paidType, discount?, status?, scholarship?): the
\* account the store leaves behind (unchanged when the update is rejected).
UpdateStudentAccount(acct, journal, pt, disc, sch) ==
    IF UpdateErrors(acct, pt, disc, sch) # {} THEN acct
    ELSE LET a1 == [acct EXCEPT !.paidType = pt]
             a2 == IF disc = {} THEN a1
                   ELSE [a1 EXCEPT !.discount = CHOOSE d \in disc : TRUE]
             a3 == IF sch = {} THEN a2
                   ELSE [a2 EXCEPT !.scholarship = CHOOSE p \in sch : TRUE]
         IN  Recompute(a3, journal)

\* Re-pricing: the base fee replaced by the catalog's; the discount amount
\* and the scholarship percentage stay as they are stored.
RepriceAccount(acct, journal, newFee) ==
    Recompute([acct EXCEPT !.tuitionFee = newFee], journal)

\* applyForwardedBalance(account, signedAmount)
ForwardAccount(acct, journal, amt) ==
    Recompute([acct EXCEPT !.forwarded = amt], journal)

(***************************************************************************)
(* The payment form.                                                       *)
(***************************************************************************)
\* The snapshot of the server's documents a prop carries.
Snapshot == [isActive |-> student.isActive,
             account  |-> account,
             payments |-> payments]

\* useState initialisers (run when the form mounts).
InitStudentStatus(sel) == IF sel.isActive THEN "active" ELSE "inactive"

InitPaidType(sel) ==
    IF sel.account.paidType = "" THEN "1" ELSE sel.account.paidType

InitDiscountPercentage(sel) ==
    IF sel.account.discount # 0
    THEN RoundDiv(sel.account.discount * 100,
                  OrElse(sel.account.tuitionFee, 1))
    ELSE 0

InitScholarshipPercentage(sel) ==
    IF sel.account.scholarship # 0 THEN sel.account.scholarship ELSE 0

\* Mutant: a schema that lets a zero amount through.
FormSchemaErrors_NonNegative(values) ==
    (IF values.amount >= 0 THEN {} ELSE {"NonPositiveAmount"})
    \cup (IF values.type # "" THEN {} ELSE {"UnknownPaymentType"})
    \cup (IF values.paymentMethod # "" THEN {} ELSE {"UnknownPaymentMethod"})

\* Mutant: a schema with no rule for the payment method.
FormSchemaErrors_NoMethodRule(values) ==
    (IF values.amount > 0 THEN {} ELSE {"NonPositiveAmount"})
    \cup (IF values.type # "" THEN {} ELSE {"UnknownPaymentType"})

\* formSchema: the issues zod reports for the submitted values:
\* amount positive, type and paymentMethod at least one character.
FormSchemaErrors(values) ==
    (IF values.amount > 0 THEN {} ELSE {"NonPositiveAmount"})
    \cup (IF values.type # "" THEN {} ELSE {"UnknownPaymentType"})
    \cup (IF values.paymentMethod # "" THEN {} ELSE {"UnknownPaymentMethod"})

\* handleSubmit: the PaymentFormData built from the validated values and
\* the snapshot (netAmount is no field of the account, so net is 0).
PaymentData(values, sel, seq) ==
    [seq           |-> seq,
     amount        |-> values.amount,
     type          |-> values.type,
     paymentMethod |-> values.paymentMethod,
     tuitionFee    |-> OrElse(sel.account.tuitionFee, 0),
     discount      |-> OrElse(sel.account.discount, 0),
     paid          |-> OrElse(sel.account.paidAmount, 0),
     net           |-> 0]

\* The Payment document stored for a request.
PaymentOf(req) ==
    [id            |-> req.seq,
     amount        |-> req.amount,
     type          |-> req.type,
     paymentMethod |-> req.paymentMethod]

\* Mutant: the paid amount taken from the request's snapshot.
RecordedAccount_FromSnapshot(acct, journal, req) ==
    [acct EXCEPT !.paidAmount = req.paid + req.amount]

\* record: the account after the payment of req was appended to journal.
RecordedAccount(acct, journal, req) == Recompute(acct, journal)

\* deletePayment(id): the Payment collection without the document.  The
\* Payment model has no field that could mark a document as reversed.
DeletePayment(journal, id) == {q \in journal : q.id # id}

(***************************************************************************)
(* Initial state: the account was created at the highest catalog price     *)
(* and the form mounted on it.                                             *)
(***************************************************************************)
Init ==
    \E f \in {x \in Fees : \A y \in Fees : y <= x}, oc \in OtherChargesChoices :
        /\ account = CreateAccount(f, oc, "Per Semester")
        /\ student = [isActive |-> TRUE]
        /\ payments = {}
        /\ inflight = {}
        /\ submitted = 0
        /\ selectedStudent = [isActive |-> TRUE,
                              account  |-> CreateAccount(f, oc, "Per Semester"),
                              payments |-> {}]
        /\ studentTransactions = selectedStudent.payments
        /\ selectedPayment = {}
        /\ isDeleteDialogOpen = FALSE
        /\ studentStatus = InitStudentStatus(selectedStudent)
        /\ paidType = InitPaidType(selectedStudent)
        /\ discountPercentage = InitDiscountPercentage(selectedStudent)
        /\ scholarshipPercentage = InitScholarshipPercentage(selectedStudent)
        /\ lastResult = {}
        /\ duePassed = FALSE

\* Initial state of the account specification: the student is enrolled,
\* has no account yet, and the form is mounted on the student.
InitAccount ==
    \E active \in BOOLEAN :
        /\ account = NoAccount
        /\ student = [isActive |-> active]
        /\ payments = {}
        /\ inflight = {}
        /\ submitted = 0
        /\ selectedStudent = [isActive |-> active,
                              account  |-> NoAccount,
                              payments |-> {}]
        /\ studentTransactions = selectedStudent.payments
        /\ selectedPayment = {}
        /\ isDeleteDialogOpen = FALSE
        /\ studentStatus = InitStudentStatus(selectedStudent)
        /\ paidType = InitPaidType(selectedStudent)
        /\ discountPercentage = InitDiscountPercentage(selectedStudent)
        /\ scholarshipPercentage = InitScholarshipPercentage(selectedStudent)
        /\ lastResult = {}
        /\ duePassed = FALSE

(***************************************************************************)
(* The parent of the form.                                                 *)
(***************************************************************************)
\* The parent re-renders the form with the student as the server has it.
Refresh ==
    /\ selectedStudent # Snapshot
    /\ selectedStudent' = Snapshot
    /\ UNCHANGED <<duePassed, serverVars, inflight, submitted, formVars, lastResult>>

\* The form is mounted again: every useState initialiser runs on the prop.
Mount ==
    /\ studentTransactions' = selectedStudent.payments
    /\ selectedPayment' = {}
    /\ isDeleteDialogOpen' = FALSE
    /\ studentStatus' = InitStudentStatus(selectedStudent)
    /\ paidType' = InitPaidType(selectedStudent)
    /\ discountPercentage' = InitDiscountPercentage(selectedStudent)
    /\ scholarshipPercentage' = InitScholarshipPercentage(selectedStudent)
    /\ formVars' # formVars
    /\ UNCHANGED <<duePassed, serverVars, inflight, submitted, selectedStudent, lastResult>>

(***************************************************************************)
(* Adjustments.                                                            *)
(***************************************************************************)
SetDiscountPercentage(p) ==
    /\ discountPercentage' = p
    /\ UNCHANGED <<duePassed, serverVars, inflight, submitted, selectedStudent,
                   studentTransactions, selectedPayment, isDeleteDialogOpen,
                   studentStatus, paidType, scholarshipPercentage, lastResult>>

HandleDiscountChange ==
    LET tuitionFee == OrElse(selectedStudent.account.tuitionFee, 0)
        discountAmount == PercentOf(discountPercentage, tuitionFee)
    IN  /\ account' = UpdateStudentAccount(account, payments, paidType,
                                           {discountAmount}, {})
        /\ lastResult' = UpdateErrors(account, paidType, {discountAmount}, {})
        /\ UNCHANGED <<duePassed, student, payments, inflight, submitted,
                       selectedStudent, formVars>>

SetScholarshipPercentage(p) ==
    /\ scholarshipPercentage' = p
    /\ UNCHANGED <<duePassed, serverVars, inflight, submitted, selectedStudent,
                   studentTransactions, selectedPayment, isDeleteDialogOpen,
                   studentStatus, paidType, discountPercentage, lastResult>>

HandleScholarshipChange ==
    LET scholarshipAmount == scholarshipPercentage
    IN  /\ account' = UpdateStudentAccount(account, payments, paidType,
                                           {}, {scholarshipAmount})
        /\ lastResult' = UpdateErrors(account, paidType, {}, {scholarshipAmount})
        /\ UNCHANGED <<duePassed, student, payments, inflight, submitted,
                       selectedStudent, formVars>>

ApplyForwardedBalance(amt) ==
    /\ account' = ForwardAccount(account, payments, amt)
    /\ lastResult' = {}
    /\ UNCHANGED <<duePassed, student, payments, inflight, submitted, selectedStudent,
                   formVars>>

Reprice(newFee) ==
    /\ newFee # account.tuitionFee
    /\ account' = RepriceAccount(account, payments, newFee)
    /\ lastResult' = {}
    /\ UNCHANGED <<duePassed, student, payments, inflight, submitted, selectedStudent,
                   formVars>>

(***************************************************************************)
(* The calendar.                                                           *)
(***************************************************************************)
\* The payment due date of the period passes.  No request reaches the
\* ledger, so the stored status stays until the next recompute.
DueDatePasses ==
    /\ ~duePassed
    /\ duePassed' = TRUE
    /\ UNCHANGED <<serverVars, inflight, submitted, selectedStudent, formVars,
                   lastResult>>

(***************************************************************************)
(* The student's account, activity and paid type.                          *)
(***************************************************************************)
\* create(studentId, academicYear, semester, baseFee, paidType).  The
\* StudentAccount model declares studentId @unique: the collection takes
\* one document per student, whatever its academicYear and semester.
CreateStudentAccount(year, sem, price, ptype) ==
    /\ IF account # NoAccount
       THEN /\ lastResult' = {"DuplicateAccount"}
            /\ UNCHANGED account
       ELSE /\ account' = [CreateAccount(price, 0, ptype)
                               EXCEPT !.academicYear = year, !.semester = sem]
            /\ lastResult' = {}
    /\ UNCHANGED <<duePassed, student, payments, inflight, submitted,
                   selectedStudent, formVars>>

\* The status dropdown: onValueChange={setStudentStatus}.
SetStudentStatus(s) ==
    /\ studentStatus' = s
    /\ UNCHANGED <<duePassed, serverVars, inflight, submitted, selectedStudent,
                   studentTransactions, selectedPayment, isDeleteDialogOpen,
                   paidType, discountPercentage, scholarshipPercentage,
                   lastResult>>

\* toggleStudentActivation(id): the student's activity flag inverted.
ToggleStudentActivation(st) == [st EXCEPT !.isActive = ~st.isActive]

\* handleStatusChange: the confirm button next to the status dropdown.
HandleStatusChange ==
    /\ student' = ToggleStudentActivation(student)
    /\ studentStatus' = IF studentStatus = "active" THEN "inactive"
                        ELSE "active"
    /\ lastResult' = {}
    /\ UNCHANGED <<duePassed, account, payments, inflight, submitted,
                   selectedStudent, studentTransactions, selectedPayment,
                   isDeleteDialogOpen, paidType, discountPercentage,
                   scholarshipPercentage>>

\* The paid-type dropdown: onValueChange={setPaidType}.
SetPaidType(pt) ==
    /\ paidType' = pt
    /\ UNCHANGED <<duePassed, serverVars, inflight, submitted, selectedStudent,
                   studentTransactions, selectedPayment, isDeleteDialogOpen,
                   studentStatus, discountPercentage, scholarshipPercentage,
                   lastResult>>

\* handlePaidTypeChange: the confirm button next to the paid-type dropdown.
HandlePaidTypeChange ==
    /\ account' = UpdateStudentAccount(account, payments, paidType, {}, {})
    /\ lastResult' = UpdateErrors(account, paidType, {}, {})
    /\ UNCHANGED <<duePassed, student, payments, inflight, submitted,
                   selectedStudent, formVars>>

(***************************************************************************)
(* Payments.                                                               *)
(***************************************************************************)
\* The submit button: form.handleSubmit validates against formSchema and
\* calls handleSubmit only with valid values; handleSubmit hands the
\* PaymentFormData to onSubmit.
HandleSubmit(values) ==
    IF FormSchemaErrors(values) # {}
    THEN /\ lastResult' = FormSchemaErrors(values)
         /\ UNCHANGED <<duePassed, serverVars, inflight, submitted, selectedStudent,
                        formVars>>
    ELSE /\ submitted < MaxSubmits
         /\ inflight' = inflight
                \cup {PaymentData(values, selectedStudent, submitted + 1)}
         /\ submitted' = submitted + 1
         /\ UNCHANGED <<duePassed, serverVars, selectedStudent, formVars, lastResult>>

\* The request reaches the journal.  The Payment model types `type` with
\* the PaymentType enum (a document with another value is refused) and
\* `paymentMethod` as a free string.
CreatePayment(req) ==
    /\ req \in inflight
    /\ inflight' = inflight \ {req}
    /\ IF req.type \notin PaymentType
       THEN /\ lastResult' = {"UnknownPaymentType"}
            /\ UNCHANGED <<serverVars>>
       ELSE /\ payments' = payments \cup {PaymentOf(req)}
            /\ account' = RecordedAccount(account,
                                          payments \cup {PaymentOf(req)}, req)
            /\ lastResult' = {}
            /\ UNCHANGED student
    /\ UNCHANGED <<duePassed, submitted, selectedStudent, formVars>>

\* The trash button of a row of the transaction table.
HandleDeletePayment(transaction) ==
    /\ transaction \in studentTransactions
    /\ ~isDeleteDialogOpen
    /\ selectedPayment' = {transaction}
    /\ isDeleteDialogOpen' = TRUE
    /\ UNCHANGED <<duePassed, serverVars, inflight, submitted, selectedStudent,
                   studentTransactions, studentStatus, paidType,
                   discountPercentage, scholarshipPercentage, lastResult>>

\* The Cancel button of the confirmation dialog.
CancelDeletePayment ==
    /\ isDeleteDialogOpen
    /\ isDeleteDialogOpen' = FALSE
    /\ UNCHANGED <<duePassed, serverVars, inflight, submitted, selectedStudent,
                   studentTransactions, selectedPayment, studentStatus,
                   paidType, discountPercentage, scholarshipPercentage,
                   lastResult>>

\* The Delete button of the confirmation dialog.  deletePayment fails for a
\* payment the collection no longer holds; fetchPayments reloads the
\* payment store, which the form does not read.
ConfirmDeletePayment ==
    /\ isDeleteDialogOpen
    /\ selectedPayment # {}
    /\ LET p == CHOOSE q \in selectedPayment : TRUE
       IN  IF \E q \in payments : q.id = p.id
           THEN /\ payments' = DeletePayment(payments, p.id)
                /\ account' = Recompute(account, DeletePayment(payments, p.id))
                /\ lastResult' = {}
           ELSE /\ lastResult' = {"NotFound"}
                /\ UNCHANGED <<account, payments>>
    /\ isDeleteDialogOpen' = FALSE
    /\ selectedPayment' = {}
    /\ UNCHANGED <<duePassed, student, inflight, submitted, selectedStudent,
                   studentTransactions, studentStatus, paidType,
                   discountPercentage, scholarshipPercentage>>

(***************************************************************************)
(* Specifications.  The ledger specification runs the adjustments of one   *)
(* mounted form against a re-priced account; the journal specification     *)
(* runs the payments of a form that is mounted again and again; the        *)
(* account specification starts from a student without account and runs    *)
(* the creation, the activity flag and the paid type; the status           *)
(* specification runs payments, reversals and scholarships against the     *)
(* calendar; the settled-account specification runs payments against       *)
(* discounts and forwarded balances.                                       *)
(***************************************************************************)
NextLedger ==
    \/ Refresh
    \/ \E p \in DiscountChoices : SetDiscountPercentage(p)
    \/ HandleDiscountChange
    \/ \E p \in ScholarshipChoices : SetScholarshipPercentage(p)
    \/ HandleScholarshipChange
    \/ \E amt \in ForwardedChoices : ApplyForwardedBalance(amt)
    \/ \E f \in Fees : Reprice(f)

SpecLedger == Init /\ [][NextLedger]_vars

NextJournal ==
    \/ Refresh
    \/ Mount
    \/ \E a \in AmountInputs, t \in TypeInputs, m \in MethodInputs :
           HandleSubmit([amount |-> a, type |-> t, paymentMethod |-> m])
    \/ \E req \in inflight : CreatePayment(req)
    \/ \E t \in studentTransactions : HandleDeletePayment(t)
    \/ CancelDeletePayment
    \/ ConfirmDeletePayment

SpecJournal == Init /\ [][NextJournal]_vars

NextAccount ==
    \/ Refresh
    \/ Mount
    \/ \E y \in AcademicYears, sem \in Semesters, price \in CatalogPrices,
          pt \in PaidTypeChoices : CreateStudentAccount(y, sem, price, pt)
    \/ \E st \in {"active", "inactive"} : SetStudentStatus(st)
    \/ HandleStatusChange
    \/ \E pt \in PaidTypeChoices : SetPaidType(pt)
    \/ HandlePaidTypeChange
    \/ \E p \in DiscountChoices : SetDiscountPercentage(p)
    \/ HandleDiscountChange

SpecAccount == InitAccount /\ [][NextAccount]_vars

NextStatus ==
    \/ Refresh
    \/ Mount
    \/ \E a \in StatusAmounts :
           HandleSubmit([amount |-> a, type |-> "tuition",
                         paymentMethod |-> "cash"])
    \/ \E req \in inflight : CreatePayment(req)
    \/ \E t \in studentTransactions : HandleDeletePayment(t)
    \/ ConfirmDeletePayment
    \/ DueDatePasses
    \/ \E p \in ScholarshipChoices : SetScholarshipPercentage(p)
    \/ HandleScholarshipChange

SpecStatus == Init /\ [][NextStatus]_vars

NextSettled ==
    \/ \E a \in StatusAmounts :
           HandleSubmit([amount |-> a, type |-> "tuition",
                         paymentMethod |-> "cash"])
    \/ \E req \in inflight : CreatePayment(req)
    \/ DueDatePasses
    \/ \E p \in DiscountChoices : SetDiscountPercentage(p)
    \/ HandleDiscountChange
    \/ \E amt \in ForwardedChoices : ApplyForwardedBalance(amt)

SpecSettled == Init /\ [][NextSettled]_vars

(***************************************************************************)
(* Properties of the ledger specification.                                 *)
(***************************************************************************)

\* C1: in every state the stored totalDue is
\* baseFee + otherCharges + forwarded - discount - scholarshipAmount,
\* with scholarshipAmount = scholarshipPercentage / 100 * baseFee.
C1_TotalDueComposition ==
    account.totalDue =
        account.tuitionFee + account.otherCharges + account.forwarded
            - account.discount
            - (account.scholarship * account.tuitionFee) \div 100

\* C1 witness: a re-priced account that carries a discount, a scholarship
\* and a forwarded credit, with the total they give.
C1_Witness ==
    /\ account.tuitionFee = 200
    /\ selectedStudent.account.tuitionFee = 100
    /\ account.discount = 100
    /\ account.scholarship = 10
    /\ account.forwarded = -50
    /\ account.totalDue = 60

\* C2 (as claimed): the balance the form presents for an account is
\* totalDue - paidAmount, signed.
C2_BalancePresented ==
    BalanceDisplay(selectedStudent.account) =
        selectedStudent.account.totalDue - selectedStudent.account.paidAmount

\* C5: a re-pricing leaves the stored discount amount as it is, and the
\* scholarship amount presented afterwards is the stored percentage of the
\* new base fee; a discount is stored as the amount its percentage gave on
\* the fee the form held when it was applied.
C5_ScholarshipFloatsDiscountFrozen ==
    [][/\ account'.tuitionFee # account.tuitionFee =>
            /\ account'.discount = account.discount
            /\ ScholarshipDisplay(account') =
                   (account.scholarship * account'.tuitionFee) \div 100
       /\ account'.discount # account.discount =>
            account'.discount =
                (discountPercentage * selectedStudent.account.tuitionFee)
                    \div 100
       /\ account'.scholarship # account.scholarship =>
            account'.scholarship = scholarshipPercentage]_vars

\* C5 witness: a discount of 100% of a fee of 200 and a scholarship of 10%,
\* after the fee was re-priced to 100: the discount is still 200 and the
\* scholarship presented is 10.
C5_Witness ==
    /\ account.tuitionFee = 100
    /\ account.discount = 200
    /\ account.scholarship = 10
    /\ ScholarshipDisplay(account) = 10

C7_RejectedDiscountChangesNothing ==
    [][(/\ HandleDiscountChange
        /\ (discountPercentage * selectedStudent.account.tuitionFee) \div 100
               > account.tuitionFee)
       => /\ lastResult' = {"DiscountExceedsFee"}
          /\ UNCHANGED <<account, student, payments>>]_vars

\* C7 witness: a discount of 100% of the fee the form holds was refused by
\* an account whose fee is lower.
C7_Witness ==
    /\ lastResult = {"DiscountExceedsFee"}
    /\ discountPercentage = 100
    /\ selectedStudent.account.tuitionFee > account.tuitionFee

C3_AccountAndHistoryFollowJournal ==
    [][payments' # payments =>
          /\ account'.paidAmount = SumAmounts(payments')
          /\ studentTransactions' = payments']_vars

\* C4: every payment that reaches the journal raises paidAmount by exactly
\* its amount, whatever paid amount its request was built from.
C4_NoLostUpdate ==
    [][\A req \in inflight :
          (req \notin inflight' /\ payments' # payments)
              => account'.paidAmount = account.paidAmount + req.amount]_vars

\* C4 witness: two payments of 100 are recorded, both requested by a form
\* that still holds the paid amount 0, and paidAmount is 200.
C4_Witness ==
    /\ Cardinality(payments) = 2
    /\ \A p \in payments : p.amount = 100
    /\ selectedStudent.account.paidAmount = 0
    /\ account.paidAmount = 200

\* C8: every payment stored or under way has a strictly positive amount,
\* and a record with amount <= 0 fails with NonPositiveAmount and changes
\* neither the journal nor the account.
C8_PositiveAmounts ==
    /\ [](/\ \A p \in payments : p.amount > 0
          /\ \A req \in inflight : req.amount > 0)
    /\ [][\A a \in AmountInputs, t \in TypeInputs, m \in MethodInputs :
             (/\ a <= 0
              /\ HandleSubmit([amount |-> a, type |-> t,
                               paymentMethod |-> m]))
             => /\ "NonPositiveAmount" \in lastResult'
                /\ UNCHANGED <<account, student, payments, inflight>>]_vars

\* C8 witness: a record with a non-positive amount was refused while the
\* journal holds a payment.
C8_Witness ==
    /\ "NonPositiveAmount" \in lastResult
    /\ payments # {}

\* C9: every payment stored has a type of the PaymentType enumeration and
\* one of the four payment methods, and a record with another type or
\* method fails with UnknownPaymentType / UnknownPaymentMethod and changes
\* neither the journal nor the account.
C9_KnownTypeAndMethod ==
    /\ [](\A p \in payments :
             p.type \in PaymentType /\ p.paymentMethod \in PaymentMethods)
    /\ [][\A a \in AmountInputs, t \in TypeInputs, m \in MethodInputs :
             (/\ t \notin PaymentType \/ m \notin PaymentMethods
              /\ HandleSubmit([amount |-> a, type |-> t,
                               paymentMethod |-> m]))
             => /\ t \notin PaymentType =>
                      "UnknownPaymentType" \in lastResult'
                /\ m \notin PaymentMethods =>
                      "UnknownPaymentMethod" \in lastResult'
                /\ UNCHANGED <<account, student, payments, inflight>>]_vars

\* C9 witness: a record without a payment method was refused while the
\* journal holds a payment.
C9_Witness ==
    /\ lastResult = {"UnknownPaymentMethod"}
    /\ payments # {}

\* C10 (as claimed): the journal is append-only: a payment that was
\* recorded is in the journal in every later state.
C10_JournalAppendOnly ==
    [][\A p \in payments : \E q \in payments' : q.id = p.id]_vars

(***************************************************************************)
(* Properties of the account specification.                                *)
(***************************************************************************)

\* C12 (as claimed): a create for a period the student already has an
\* account for fails with DuplicateAccount and changes nothing, and a
\* create for another academic year or semester of the same student
\* succeeds.
C12_OneAccountPerPeriod ==
    [][\A y \in AcademicYears, sem \in Semesters, price \in CatalogPrices,
          pt \in PaidTypeChoices :
          (account # NoAccount /\ CreateStudentAccount(y, sem, price, pt))
          => IF y = account.academicYear /\ sem = account.semester
             THEN lastResult' = {"DuplicateAccount"} /\ account' = account
             ELSE lastResult' = {}]_vars

C15_MissingValueIsDependencyError ==
    /\ [][(/\ HandleDiscountChange
           /\ selectedStudent.account = NoAccount
           /\ account.tuitionFee > 0
           /\ paidType \in PAID_TYPES)
          => /\ "DependencyError" \in lastResult'
             /\ UNCHANGED <<account, student, payments>>]_vars
    /\ [][\A y \in AcademicYears, sem \in Semesters, pt \in PaidTypeChoices :
             (account = NoAccount /\ CreateStudentAccount(y, sem, 0, pt))
             => /\ "DependencyError" \in lastResult'
                /\ UNCHANGED <<account, student, payments>>]_vars

\* C16 (as claimed): a deactivation, a confirmed status change with
\* "inactive" in the dropdown, leaves the activity flag false whatever it
\* was before and changes neither the account nor the journal.
C16_DeactivateSetsInactive ==
    [][(HandleStatusChange /\ studentStatus = "inactive")
          => /\ student'.isActive = FALSE
             /\ account' = account
             /\ payments' = payments]_vars

\* C17 (as claimed): an account that has just been created has the status
\* pending.
C17_CreatedPending ==
    [][(account = NoAccount /\ account' # NoAccount)
          => account'.status = "pending"]_vars

\* C20 (as claimed): after a status change went through, the status the
\* form shows is the student's activity flag on the server.
C20_ShownStatusIsActivityFlag ==
    [][HandleStatusChange
          => (studentStatus' = "active" <=> student'.isActive)]_vars

\* C21 (as claimed): a confirmed discount or scholarship that changes the
\* adjustment leaves the paid type the account stores and the student's
\* activity flag as they were, whatever the paid-type and status dropdowns
\* hold.
C21_AdjustmentKeepsPaidTypeAndActivity ==
    [][(/\ HandleDiscountChange \/ HandleScholarshipChange
        /\ \/ account'.discount # account.discount
           \/ account'.scholarship # account.scholarship)
          => /\ account'.paidType = account.paidType
             /\ student'.isActive = student.isActive]_vars

(***************************************************************************)
(* Properties of the status specification.                                 *)
(***************************************************************************)

\* C13: the status is derived again whenever a payment is recorded or
\* reversed: with 0 < paidAmount < totalDue afterwards it is partial, and
\* with every payment reversed and a positive balance it is pending before
\* the due date and overdue after it.
C13_StatusRederived ==
    [][payments' # payments =>
          /\ (0 < account'.paidAmount
                  /\ account'.paidAmount < account'.totalDue)
                 => account'.status = "partial"
          /\ (payments' = {} /\ account'.totalDue > 0)
                 => /\ account'.paidAmount = 0
                    /\ account'.status =
                           IF duePassed THEN "overdue" ELSE "pending"]_vars

\* C13 witness: base fee 200 with a scholarship of 10% (total due 180); the
\* payment that was recorded has been reversed after the due date: paid
\* amount 0, balance 180, overdue.
C13_Witness ==
    /\ account.tuitionFee = 200
    /\ account.scholarship = 10
    /\ account.totalDue = 180
    /\ submitted > 0
    /\ inflight = {}
    /\ payments = {}
    /\ account.paidAmount = 0
    /\ duePassed
    /\ account.status = "overdue"

====
